---- MODULE Spec2Model ----
(***************************************************************************)
(* Moodify backend (src/app.py): the Spotify token cache, the recommend    *)
(* handler (query construction, search fallback ladder, candidate          *)
(* selection, bounded per-user history) as a state machine.                *)
(*                                                                         *)
(* Units.  valence / arousal / energy are floats in the source; here they  *)
(* are integers in tenths (0.4 is 4, 0.6 is 6, 0.5 is 5).  Time is an       *)
(* integer clock.  Strings are TLA+ strings; free text is a sequence of    *)
(* tokens so that str.strip() can be computed.                             *)
(***************************************************************************)
EXTENDS Integers, Sequences, FiniteSets, TLC

VARIABLES
    spotify_token_cache,  \* app.py:55  {"access_token", "expires_at"}
    now,                  \* the wall clock read by time.time() / datetime.now()
    records_col,          \* app.py:46  the mood_records collection
    users_col,            \* app.py:45  the users collection
    next_id,              \* the next ObjectId the store hands out
    req,                  \* per worker thread: the request it is serving
    served,               \* number of requests accepted so far
    env                   \* the environment: worker threads, request bodies,
                          \* random draws and catalog answers it can produce

vars == <<spotify_token_cache, now, records_col, users_col, next_id, req, served, env>>

-----------------------------------------------------------------------------
(* Bounds of the model *)

MaxLevel == 10      \* valence / arousal inputs range over 0..MaxLevel tenths
MaxRequests == 2    \* requests accepted in one run of the concurrent model
MaxTicks == 1       \* clock ticks besides those made by history inserts
TokenTTL == 3       \* remaining lifetime of a token already in the cache

(* Program constants *)

Low == 4            \* 0.4
High == 6           \* 0.6
Default == 5        \* 0.5
MaxOffset == 50     \* random.randint(0, 50)
TopN == 5           \* tracks[:5], weighted_tracks[:5]
LIMIT == 40         \* history records kept per user
SearchLimit == 20   \* "limit": 20, tracks[:20]

None == "None"

-----------------------------------------------------------------------------
(* Values of a JSON request field *)

Num(n) == [kind |-> "num", val |-> n]
Absent == [kind |-> "absent", val |-> 0]
Junk == [kind |-> "junk", val |-> 0]      \* a string such as "abc"

\* dict.get(key, default)
Get(field, default) == IF field.kind = "absent" THEN Num(default) ELSE field

\* float(x): a number for a number, ValueError for a non-numeric string
FloatOk(x) == x.kind = "num"
Float(x) == x.val

\* str.strip(): drop leading and trailing whitespace tokens
RECURSIVE LStrip(_)
LStrip(s) == IF s # <<>> /\ Head(s) = " " THEN LStrip(Tail(s)) ELSE s

RECURSIVE RStrip(_)
RStrip(s) ==
    IF s # <<>> /\ s[Len(s)] = " " THEN RStrip(SubSeq(s, 1, Len(s) - 1)) ELSE s

Strip_LeftOnly(s) == LStrip(s)

Strip(s) == RStrip(LStrip(s))

\* the string a token sequence spells
RECURSIVE Join(_)
Join(s) == IF s = <<>> THEN "" ELSE Head(s) \o Join(Tail(s))

-----------------------------------------------------------------------------
(* Query construction *)

get_query_from_metrics_LowOnly(valence, arousal) ==
    IF valence < Low THEN (IF arousal < Low THEN "sad" ELSE "angry")
    ELSE IF valence >= High THEN (IF arousal < Low THEN "chill" ELSE "party")
    ELSE "pop"

get_query_from_metrics(valence, arousal) ==
    IF valence < Low THEN (IF arousal < Low THEN "sad" ELSE "angry")
    ELSE IF valence > High THEN (IF arousal < Low THEN "chill" ELSE "party")
    ELSE "pop"

GENRE_MAPPING ==
    ("Mandopop" :> "mandopop") @@ ("K-Pop" :> "k-pop") @@ ("J-Pop" :> "j-pop") @@
    ("Jazz" :> "jazz") @@ ("Lofi" :> "lo-fi") @@ ("R&B" :> "r-n-b") @@
    ("Classical" :> "classical") @@ ("Electronic" :> "electronic")

KnownGenre(genre_ui) == genre_ui # "All" /\ genre_ui \in DOMAIN GENRE_MAPPING

\* app.py:149-154, the search keyword
BaseQuery(custom_text, target_valence, target_energy) ==
    IF custom_text # ""
    THEN custom_text
    ELSE get_query_from_metrics(target_valence, target_energy)

\* app.py:149-154, the values random_offset can take
OffsetChoices(custom_text) ==
    IF custom_text # "" THEN {0} ELSE 0..MaxOffset

FinalQuery_NoSuffix(base_query, genre_ui) == base_query

\* app.py:156-160
FinalQuery(base_query, genre_ui) ==
    IF KnownGenre(genre_ui)
    THEN base_query \o " genre:" \o GENRE_MAPPING[genre_ui]
    ELSE base_query

-----------------------------------------------------------------------------
(* Catalog tracks and candidate scoring *)

\* a track as the search endpoint returns it; feat is the <<valence, energy>>
\* the audio-features endpoint knows for it, <<>> when it knows none (null)
Track(i, f) == [id |-> i, feat |-> f]
NoTrack == Track(0, <<>>)
DefaultFeatures == <<Default, Default>>     \* {"valence": 0.5, "energy": 0.5}

\* app.py:211.  The source takes math.sqrt of this sum; sqrt is monotone, so
\* the order of the candidates (all the code uses the distance for) is the
\* order of the sums.  Unit: hundredths.
Distance(f, target_valence, target_energy) ==
    (f[1] - target_valence) * (f[1] - target_valence)
        + (f[2] - target_energy) * (f[2] - target_energy)

Prefix(s, n) == SubSeq(s, 1, IF Len(s) < n THEN Len(s) ELSE n)

\* list.sort(key=distance) is stable: equal keys keep their order
RECURSIVE InsertByDistance(_, _, _, _)
InsertByDistance(sorted, t, tv, te) ==
    IF sorted = <<>> THEN <<t>>
    ELSE IF Distance(sorted[Len(sorted)].feat, tv, te) <= Distance(t.feat, tv, te)
         THEN Append(sorted, t)
         ELSE Append(InsertByDistance(SubSeq(sorted, 1, Len(sorted) - 1), t, tv, te),
                     sorted[Len(sorted)])

RECURSIVE SortByDistance(_, _, _)
SortByDistance(s, tv, te) ==
    IF s = <<>> THEN <<>>
    ELSE InsertByDistance(SortByDistance(SubSeq(s, 1, Len(s) - 1), tv, te),
                          s[Len(s)], tv, te)

\* app.py:204-214: the tracks the feature answer has an entry for, in search order
RECURSIVE Weighted(_, _)
Weighted(tracks, known) ==
    IF tracks = <<>> THEN <<>>
    ELSE IF Head(tracks).id \in known /\ Head(tracks).feat # <<>>
         THEN <<Head(tracks)>> \o Weighted(Tail(tracks), known)
         ELSE Weighted(Tail(tracks), known)

SliderCandidates_Unsorted(tracks, known, tv, te) ==
    IF Weighted(tracks, known) # <<>>
    THEN Prefix(Weighted(tracks, known), TopN)
    ELSE Prefix(tracks, TopN)

\* app.py:216-221: the tracks random.choice draws from in slider mode
SliderCandidates(tracks, known, tv, te) ==
    IF Weighted(tracks, known) # <<>>
    THEN Prefix(SortByDistance(Weighted(tracks, known), tv, te), TopN)
    ELSE Prefix(tracks, TopN)

\* app.py:193: the tracks random.choice draws from in text mode
TextCandidates(tracks) == Prefix(tracks, TopN)

Range(s) == {s[i] : i \in DOMAIN s}

-----------------------------------------------------------------------------
(* The environment's menus *)

\* what the catalog can hold
Shelf ==
    << Track(1, <<5, 5>>), Track(2, <<9, 9>>), Track(4, <<4, 5>>),
       Track(5, <<5, 4>>), Track(6, <<6, 6>>), Track(7, <<5, 6>>),
       Track(3, <<>>), Track(8, <<2, 2>>) >>

MaxTracks == 7      \* bound: length of the longest search answer

Body(u, v, a, g, t) ==
    [user_id |-> u, valence |-> v, arousal |-> a, genre |-> g, text |-> t]

LofiBeats == <<" ", "lofi", " ", "beats", " ">>
Blank == <<" ", " ">>

\* every request body over the whole mood grid
GridBodies ==
    { Body("", v, a, g, t) :
        v \in {Num(n) : n \in 0..MaxLevel} \cup {Absent},
        a \in {Num(n) : n \in 0..MaxLevel} \cup {Absent},
        g \in {"All", "<absent>", "Lofi", "K-Pop", "Rock"},
        t \in {<<>>, Blank, LofiBeats} }

\* one mood per quadrant and the middle band
Moods == { <<2, 2>>, <<5, 5>>, <<8, 8>> }

SampleBodies ==
    { Body(u, Num(m[1]), Num(m[2]), g, <<>>) :
        u \in {"", "u1"}, m \in Moods, g \in {"All", "Lofi"} }
    \cup { Body("u2", Num(m[1]), Num(m[2]), g, LofiBeats) :
             m \in {<<5, 5>>, <<2, 2>>}, g \in {"<absent>", "K-Pop", "Rock"} }
    \cup { Body("u1", Junk, Num(Default), "All", <<>>) }

NarrowBodies ==
    { Body("u1", Num(Default), Num(Default), "All", <<>>),
      Body("u1", Num(Default), Num(Default), "Lofi", LofiBeats) }

SampleResults == { Prefix(Shelf, 2), Prefix(Shelf, MaxTracks) }

-----------------------------------------------------------------------------
(* State *)

NoResp == [status |-> 0, error |-> "", name |-> 0, match_info |-> <<>>,
           user_id |-> 0]

IdleReq ==
    [ pc |-> "idle",
      route |-> "",                \* the handler serving the request
      username |-> "",             \* POST /login: data.get('username')
      data |-> Body("", Absent, Absent, "<absent>", <<>>),
      token |-> None,              \* what get_spotify_token returned
      hit |-> FALSE,               \* it answered from the cache
      target_valence |-> 0, target_energy |-> 0,
      genre_ui |-> "", custom_text |-> "",
      random_offset |-> 0,
      q |-> "", offset |-> 0,      \* params["q"], params["offset"]
      tracks |-> <<>>,
      calls |-> <<>>,              \* outbound HTTP calls issued, in order
      best_match |-> NoTrack,
      features |-> <<>>,           \* best_match.get("features", {})
      count |-> 0,
      ids_to_delete |-> {},
      db_error |-> FALSE,          \* "Database Error" was printed
      before |-> {},               \* history variable: the store as insert_one found it
      resp |-> NoResp ]

Call(api, q, offset, token, result) ==
    [api |-> api, q |-> q, offset |-> offset, token |-> token, result |-> result]

Seed(user, k, base) ==
    { [ _id |-> base + i, user_id |-> user, user_input |-> "Slider Mode",
        mood_tag |-> "General", valence |-> Default, energy |-> Default,
        song_name |-> 1, timestamp |-> i ] : i \in 1..k }

Now0 == LIMIT + 1

\* the cache as line 55 creates it, and a cache holding a token as lines
\* 69-70 store one, unexpired or just expired; everything in the handler
\* past line 139 runs only from an unexpired one
ColdCache == [access_token |-> None, expires_at |-> 0]
WarmCache == [access_token |-> "tok", expires_at |-> Now0 + TokenTTL]
StaleCache == [access_token |-> "tok", expires_at |-> Now0]

Threads == env.threads

\* the users collection with one user already registered
Users0 == { [_id |-> 2 * LIMIT, username |-> "ann", created_at |-> 0] }

InitCommon ==
    /\ spotify_token_cache \in {ColdCache, WarmCache, StaleCache}
    /\ now = Now0
    /\ next_id = 2 * LIMIT + 1
    /\ served = 0

\* one worker serving one request, a login or a recommendation drawn from the
\* sampled bodies, every kind of failure; u1's history is full, u2's is one short of full
Init ==
    /\ InitCommon
    /\ env = [ threads |-> {1}, quota |-> 1, bodies |-> SampleBodies,
               offsets |-> {0, 7}, results |-> SampleResults,
               failures |-> {"empty", "status", "raise", "none"},
               usernames |-> {"", "ann", "bob"} ]
    /\ records_col = Seed("u1", LIMIT, 0) \cup Seed("u2", LIMIT - 1, LIMIT)
    /\ users_col = Users0
    /\ req = [p \in {1} |-> IdleReq]

\* two workers serving logins and recommendations of the same user at once;
\* the catalog and the store always answer
InitConc ==
    /\ InitCommon
    /\ env = [ threads |-> {1, 2}, quota |-> MaxRequests, bodies |-> NarrowBodies,
               offsets |-> {0}, results |-> {Prefix(Shelf, 1)},
               failures |-> {}, usernames |-> {"ann", "bob"} ]
    /\ records_col = Seed("u1", LIMIT, 0)
    /\ users_col = Users0
    /\ req = [p \in {1, 2} |-> IdleReq]

\* one worker serving several requests in a row for two users; the catalog
\* answers or the call fails, the store may fail
InitSeq ==
    /\ InitCommon
    /\ env = [ threads |-> {1}, quota |-> MaxRequests,
               bodies |-> { Body("u1", Num(Default), Num(Default), "All", <<>>),
                            Body("u2", Num(Default), Num(Default), "Lofi", LofiBeats) },
               offsets |-> {0}, results |-> {Prefix(Shelf, 1)},
               failures |-> {"raise"}, usernames |-> {"", "ann", "bob"} ]
    /\ records_col = Seed("u1", LIMIT, 0) \cup Seed("u2", LIMIT - 1, LIMIT)
    /\ users_col = Users0
    /\ req = [p \in {1} |-> IdleReq]

\* the query builder alone, over the whole grid of request bodies
InitQuery ==
    /\ spotify_token_cache = WarmCache
    /\ now = Now0
    /\ next_id = 1
    /\ served = 0
    /\ env = [ threads |-> {1}, quota |-> 0, bodies |-> {},
               offsets |-> 0..(2 * MaxOffset), results |-> {},
               failures |-> {}, usernames |-> {} ]
    /\ records_col = {}
    /\ users_col = {}
    /\ \E d \in GridBodies :
         req = [p \in {1} |-> [IdleReq EXCEPT !.pc = "build", !.data = d,
                                              !.route = "recommend",
                                              !.token = "tok"]]

-----------------------------------------------------------------------------
(* Responses *)

Resp(status, error) == [NoResp EXCEPT !.status = status, !.error = error]

\* app.py:258-260, the handler's outer except
InternalError(r) ==
    [r EXCEPT !.pc = "done", !.resp = Resp(500, "Internal Server Error")]

-----------------------------------------------------------------------------
(* POST /login, app.py:94-114 *)

\* a store operation succeeds (TRUE) or raises (FALSE)
DbOutcomes == {TRUE} \cup {ok \in {FALSE} : "raise" \in env.failures}

Named(username) == {u \in users_col : u.username = username}

LoginOk(r, user_id) ==
    [r EXCEPT !.pc = "done", !.resp = [NoResp EXCEPT !.status = 200, !.user_id = user_id]]

\* app.py:112-114
LoginError(r) == [r EXCEPT !.pc = "done", !.resp = Resp(500, "Login Error")]

\* app.py:96-98: the body is read; no username, no login
Login(p) ==
    /\ req[p].pc = "idle"
    /\ served < env.quota
    /\ \E username \in env.usernames :
         req' = [req EXCEPT ![p] =
                   IF username = ""
                   THEN [IdleReq EXCEPT !.pc = "done", !.route = "login",
                                        !.resp = Resp(400, "No username")]
                   ELSE [IdleReq EXCEPT !.pc = "find_one", !.route = "login",
                                        !.username = username]]
    /\ served' = served + 1
    /\ UNCHANGED <<spotify_token_cache, now, records_col, next_id, env, users_col>>

\* app.py:101-103 and 110: find_one, and the answer if the user is there
LoginFind(p) ==
    /\ req[p].pc = "find_one"
    /\ \E ok \in DbOutcomes :
         IF ~ok THEN req' = [req EXCEPT ![p] = LoginError(@)]
         ELSE IF Named(req[p].username) = {}
              THEN req' = [req EXCEPT ![p] = [@ EXCEPT !.pc = "insert_one"]]
              ELSE \E user \in Named(req[p].username) :
                     req' = [req EXCEPT ![p] = LoginOk(@, user._id)]
    /\ UNCHANGED <<spotify_token_cache, now, records_col, next_id, served, env, users_col>>

\* app.py:104-110: insert_one for a username find_one did not find
LoginInsert(p) ==
    /\ req[p].pc = "insert_one"
    /\ \E ok \in DbOutcomes :
         IF ok
         THEN /\ users_col' = users_col \cup
                    { [_id |-> next_id, username |-> req[p].username,
                       created_at |-> now] }
              /\ next_id' = next_id + 1
              /\ req' = [req EXCEPT ![p] = LoginOk(@, next_id)]
         ELSE /\ req' = [req EXCEPT ![p] = LoginError(@)]
              /\ UNCHANGED <<users_col, next_id>>
    /\ UNCHANGED <<spotify_token_cache, now, records_col, served, env>>

-----------------------------------------------------------------------------
(* POST /spotify/recommend: accepting a request, app.py:136-138 *)

Recommend(p) ==
    /\ req[p].pc = "idle"
    /\ served < env.quota
    /\ \E d \in env.bodies :
         req' = [req EXCEPT ![p] = [IdleReq EXCEPT !.pc = "token", !.data = d,
                                                   !.route = "recommend"]]
    /\ served' = served + 1
    /\ UNCHANGED <<spotify_token_cache, now, records_col, next_id, env, users_col>>

-----------------------------------------------------------------------------
(* get_spotify_token, app.py:57-74 *)

GetToken_Check_NoExpiry(p) ==
    /\ req[p].pc = "token"
    /\ req' = [req EXCEPT ![p] =
                 [@ EXCEPT !.token = spotify_token_cache.access_token,
                           !.hit = TRUE, !.pc = "guard"]]
    /\ UNCHANGED <<spotify_token_cache, now, records_col, next_id, served, env, users_col>>

\* app.py:58-59
GetToken_Check(p) ==
    /\ req[p].pc = "token"
    /\ req' = [req EXCEPT ![p] =
                 IF now < spotify_token_cache.expires_at
                 THEN [@ EXCEPT !.token = spotify_token_cache.access_token,
                                !.hit = TRUE, !.pc = "guard"]
                 ELSE [@ EXCEPT !.hit = FALSE, !.pc = "exchange"]]
    /\ UNCHANGED <<spotify_token_cache, now, records_col, next_id, served, env, users_col>>

\* app.py:64 passes the name `url` to requests.post; the function binds
\* TOKEN_URL (line 61) and no global `url` exists, so evaluating the
\* argument raises NameError before the call is made.
url_is_bound == FALSE

DefaultExpiresIn == 3600    \* data.get("expires_in", 3600)
Margin == 60                \* ... - 60

\* app.py:61-74
GetToken_Exchange(p) ==
    /\ req[p].pc = "exchange"
    /\ IF ~url_is_bound
       THEN \* NameError, caught at line 72: return None
            /\ req' = [req EXCEPT ![p] = [@ EXCEPT !.token = None, !.pc = "guard"]]
            /\ UNCHANGED spotify_token_cache
       ELSE \E out \in {"ok"} \cup {k \in {"status", "raise"} : k \in env.failures},
               expires_in \in {DefaultExpiresIn} :
              LET call == Call("token", "", 0, None, out) IN
              IF out = "ok"
              THEN /\ spotify_token_cache' =
                        [access_token |-> "tok",
                         expires_at |-> now + expires_in - Margin]
                   /\ req' = [req EXCEPT ![p] =
                                [@ EXCEPT !.token = "tok", !.pc = "guard",
                                          !.calls = Append(@, call)]]
              ELSE /\ req' = [req EXCEPT ![p] =
                                [@ EXCEPT !.token = None, !.pc = "guard",
                                          !.calls = Append(@, call)]]
                   /\ UNCHANGED spotify_token_cache
    /\ UNCHANGED <<now, records_col, next_id, served, env, users_col>>

AfterToken_Proceed(r) == [r EXCEPT !.pc = "build"]

\* app.py:139
AfterToken(r) ==
    IF r.token = None
    THEN [r EXCEPT !.pc = "done", !.resp = Resp(500, "Token error")]
    ELSE [r EXCEPT !.pc = "build"]

TokenGuard(p) ==
    /\ req[p].pc = "guard"
    /\ req' = [req EXCEPT ![p] = AfterToken(@)]
    /\ UNCHANGED <<spotify_token_cache, now, records_col, next_id, served, env, users_col>>

-----------------------------------------------------------------------------
(* Reading the body and building the query, app.py:141-165 *)

GetStr(field, default) == IF field = "<absent>" THEN default ELSE field

\* random.randint(lo, hi), as far as the environment's random source goes
RandInt(lo, hi) == {n \in lo..hi : n \in env.offsets}

BuildQuery(p) ==
    /\ req[p].pc = "build"
    /\ LET r == req[p]
           v == Get(r.data.valence, Default)
           a == Get(r.data.arousal, Default)
           genre_ui == GetStr(r.data.genre, "All")
           custom_text == Join(Strip(r.data.text))
       IN  IF ~FloatOk(v) \/ ~FloatOk(a)
           THEN \* ValueError outside the try block: the framework answers 500
                req' = [req EXCEPT ![p] =
                          [r EXCEPT !.pc = "done", !.resp = Resp(500, "Unhandled")]]
           ELSE \E o \in {n \in OffsetChoices(custom_text) : n \in env.offsets} :
                  req' = [req EXCEPT ![p] =
                            [r EXCEPT !.pc = "search0",
                                      !.target_valence = Float(v),
                                      !.target_energy = Float(a),
                                      !.genre_ui = genre_ui,
                                      !.custom_text = custom_text,
                                      !.random_offset = o,
                                      !.q = FinalQuery(
                                              BaseQuery(custom_text, Float(v), Float(a)),
                                              genre_ui),
                                      !.offset = o]]
    /\ UNCHANGED <<spotify_token_cache, now, records_col, next_id, served, env, users_col>>

-----------------------------------------------------------------------------
(* The search ladder, app.py:167-189 *)

\* what one GET /search can come back with
SearchOutcomes ==
    { [kind |-> "items", items |-> l] : l \in env.results }
    \cup { [kind |-> k, items |-> <<>>] :
             k \in {f \in {"empty", "status", "raise"} : f \in env.failures} }

\* one requests.get(.../search) and the line that reads its answer
DoSearch(p, q, offset, next) ==
    \E out \in SearchOutcomes :
      LET r == req[p]
          logged == [r EXCEPT !.calls = Append(@, Call("search", q, offset, r.token, out.kind)),
                              !.q = q, !.offset = offset]
      IN  req' = [req EXCEPT ![p] =
                    IF out.kind = "raise"
                    THEN InternalError(logged)
                    ELSE [logged EXCEPT !.tracks = out.items, !.pc = next]]

Skip(p, next) == req' = [req EXCEPT ![p] = [@ EXCEPT !.pc = next]]

NeedRetry_Always(r) == r.random_offset > 0

\* app.py:171
NeedRetry(r) == r.tracks = <<>> /\ r.random_offset > 0

\* app.py:176
NeedGenreFallback(r) == r.tracks = <<>> /\ KnownGenre(r.genre_ui)

NeedPop_GenreOnly(r) == r.tracks = <<>> /\ KnownGenre(r.genre_ui)

\* app.py:183
NeedPop(r) == r.tracks = <<>>

\* app.py:168-169
Search0(p) ==
    /\ req[p].pc = "search0"
    /\ DoSearch(p, req[p].q, req[p].offset, "search1")
    /\ UNCHANGED <<spotify_token_cache, now, records_col, next_id, served, env, users_col>>

\* app.py:171-174
Search1(p) ==
    /\ req[p].pc = "search1"
    /\ IF NeedRetry(req[p])
       THEN DoSearch(p, req[p].q, 0, "search2")
       ELSE Skip(p, "search2")
    /\ UNCHANGED <<spotify_token_cache, now, records_col, next_id, served, env, users_col>>

\* app.py:176-181
Search2(p) ==
    /\ req[p].pc = "search2"
    /\ IF NeedGenreFallback(req[p])
       THEN \E o \in RandInt(0, MaxOffset) :
              DoSearch(p, "genre:" \o GENRE_MAPPING[req[p].genre_ui], o, "search3")
       ELSE Skip(p, "search3")
    /\ UNCHANGED <<spotify_token_cache, now, records_col, next_id, served, env, users_col>>

\* app.py:183-187
Search3(p) ==
    /\ req[p].pc = "search3"
    /\ IF NeedPop(req[p])
       THEN DoSearch(p, "Pop", 0, "found")
       ELSE Skip(p, "found")
    /\ UNCHANGED <<spotify_token_cache, now, records_col, next_id, served, env, users_col>>

\* app.py:189
CheckFound(p) ==
    /\ req[p].pc = "found"
    /\ req' = [req EXCEPT ![p] =
                 IF @.tracks = <<>>
                 THEN [@ EXCEPT !.pc = "done", !.resp = Resp(404, "No tracks found")]
                 ELSE [@ EXCEPT !.pc = "select"]]
    /\ UNCHANGED <<spotify_token_cache, now, records_col, next_id, served, env, users_col>>

-----------------------------------------------------------------------------
(* Choosing the track, app.py:191-221 *)

\* what GET /audio-features can come back with: entries for the tracks the
\* catalog has features for, no usable entry, or a failed call
FeatureOutcomes == {"all"} \cup {k \in {"none", "raise"} : k \in env.failures}

Ids(tracks) == {tracks[i].id : i \in DOMAIN tracks}

\* app.py:192-200
SelectByText(p) ==
    /\ req[p].pc = "select"
    /\ req[p].custom_text # ""
    /\ \E t \in Range(TextCandidates(req[p].tracks)), fo \in FeatureOutcomes :
         req' = [req EXCEPT ![p] =
                   [@ EXCEPT !.best_match = t,
                             !.features = IF fo = "all" /\ t.feat # <<>>
                                          THEN t.feat ELSE DefaultFeatures,
                             !.calls = Append(@, Call("audio-features", "", 0,
                                                      req[p].token, fo)),
                             !.pc = "insert"]]
    /\ UNCHANGED <<spotify_token_cache, now, records_col, next_id, served, env, users_col>>

\* app.py:201-221
SelectByMood(p) ==
    /\ req[p].pc = "select"
    /\ req[p].custom_text = ""
    /\ \E fo \in FeatureOutcomes :
         LET r == req[p]
             logged == [r EXCEPT !.calls = Append(@, Call("audio-features", "", 0,
                                                          r.token, fo))]
             known == IF fo = "all" THEN Ids(Prefix(r.tracks, SearchLimit)) ELSE {}
             scored == Weighted(r.tracks, known) # <<>>
         IN  IF fo = "raise"
             THEN req' = [req EXCEPT ![p] = InternalError(logged)]
             ELSE \E t \in Range(SliderCandidates(r.tracks, known,
                                                  r.target_valence, r.target_energy)) :
                    req' = [req EXCEPT ![p] =
                              [logged EXCEPT !.best_match = t,
                                             !.features = IF scored THEN t.feat ELSE <<>>,
                                             !.pc = "insert"]]
    /\ UNCHANGED <<spotify_token_cache, now, records_col, next_id, served, env, users_col>>

-----------------------------------------------------------------------------
(* Writing and trimming the history, app.py:223-248 *)

OnDbError_Propagate(r) == InternalError(r)

\* app.py:247-248: print and carry on
OnDbError(r) == [r EXCEPT !.db_error = TRUE, !.pc = "respond"]

Of(user) == {d \in records_col : d.user_id = user}

Older(a, b) ==
    a.timestamp < b.timestamp \/ (a.timestamp = b.timestamp /\ a._id < b._id)

Oldest_Newest(docs, n) == {d \in docs : Cardinality({x \in docs : Older(d, x)}) < n}

\* app.py:242: find(...).sort("timestamp", 1).limit(n)
Oldest(docs, n) == {d \in docs : Cardinality({x \in docs : Older(x, d)}) < n}

HasUser_Always(r) == TRUE

\* app.py:223: if user_id
HasUser(r) == r.data.user_id # ""

\* app.py:223-236
Insert(p) ==
    /\ req[p].pc = "insert"
    /\ LET r == req[p] IN
       IF ~HasUser(r)
       THEN /\ Skip(p, "respond")
            /\ UNCHANGED <<records_col, next_id, now>>
       ELSE \E ok \in DbOutcomes :
              IF ok
              THEN /\ records_col' = records_col \cup
                        { [ _id |-> next_id, user_id |-> r.data.user_id,
                            user_input |-> IF r.custom_text # ""
                                           THEN r.custom_text ELSE "Slider Mode",
                            mood_tag |-> IF r.genre_ui # "All"
                                         THEN r.genre_ui ELSE "General",
                            valence |-> r.target_valence,
                            energy |-> r.target_energy,
                            song_name |-> r.best_match.id,
                            timestamp |-> now ] }
                   /\ next_id' = next_id + 1
                   /\ now' = now + 1
                   /\ req' = [req EXCEPT ![p] =
                                [r EXCEPT !.pc = "count", !.before = records_col]]
              ELSE /\ req' = [req EXCEPT ![p] = OnDbError(r)]
                   /\ UNCHANGED <<records_col, next_id, now>>
    /\ UNCHANGED <<spotify_token_cache, served, env, users_col>>

\* app.py:240
NeedTrim(count) == count > LIMIT

\* app.py:239-240
Count(p) ==
    /\ req[p].pc = "count"
    /\ \E ok \in DbOutcomes :
         LET r == req[p]
             count == Cardinality(Of(r.data.user_id))
         IN  req' = [req EXCEPT ![p] =
                       IF ok
                       THEN [r EXCEPT !.count = count,
                                      !.pc = IF NeedTrim(count) THEN "find" ELSE "respond"]
                       ELSE OnDbError(r)]
    /\ UNCHANGED <<spotify_token_cache, now, records_col, next_id, served, env, users_col>>

\* app.py:241-244
Find(p) ==
    /\ req[p].pc = "find"
    /\ \E ok \in DbOutcomes :
         LET r == req[p]
             ids == {d._id : d \in Oldest(Of(r.data.user_id), r.count - LIMIT)}
         IN  req' = [req EXCEPT ![p] =
                       IF ok
                       THEN [r EXCEPT !.ids_to_delete = ids,
                                      !.pc = IF ids # {} THEN "delete" ELSE "respond"]
                       ELSE OnDbError(r)]
    /\ UNCHANGED <<spotify_token_cache, now, records_col, next_id, served, env, users_col>>

\* app.py:245
Delete(p) ==
    /\ req[p].pc = "delete"
    /\ \E ok \in DbOutcomes :
         IF ok
         THEN /\ records_col' = {d \in records_col : d._id \notin req[p].ids_to_delete}
              /\ Skip(p, "respond")
         ELSE /\ req' = [req EXCEPT ![p] = OnDbError(@)]
              /\ UNCHANGED records_col
    /\ UNCHANGED <<spotify_token_cache, now, next_id, served, env, users_col>>

\* app.py:250-257
Respond(p) ==
    /\ req[p].pc = "respond"
    /\ req' = [req EXCEPT ![p] =
                 [@ EXCEPT !.pc = "done",
                           !.resp = [status |-> 200, error |-> "",
                                     name |-> req[p].best_match.id,
                                     match_info |-> req[p].features,
                                     user_id |-> 0]]]
    /\ UNCHANGED <<spotify_token_cache, now, records_col, next_id, served, env, users_col>>

\* the response is sent and the worker is free again
Finish(p) ==
    /\ req[p].pc = "done"
    /\ req' = [req EXCEPT ![p] = IdleReq]
    /\ UNCHANGED <<spotify_token_cache, now, records_col, next_id, served, env, users_col>>

\* time passes
Tick ==
    /\ now < Now0 + MaxTicks
    /\ now' = now + 1
    /\ UNCHANGED <<spotify_token_cache, records_col, next_id, req, served, env, users_col>>

Next ==
    \/ Tick
    \/ \E p \in Threads : Login(p)
    \/ \E p \in Threads : LoginFind(p)
    \/ \E p \in Threads : LoginInsert(p)
    \/ \E p \in Threads : Recommend(p)
    \/ \E p \in Threads : GetToken_Check(p)
    \/ \E p \in Threads : GetToken_Exchange(p)
    \/ \E p \in Threads : TokenGuard(p)
    \/ \E p \in Threads : BuildQuery(p)
    \/ \E p \in Threads : Search0(p)
    \/ \E p \in Threads : Search1(p)
    \/ \E p \in Threads : Search2(p)
    \/ \E p \in Threads : Search3(p)
    \/ \E p \in Threads : CheckFound(p)
    \/ \E p \in Threads : SelectByText(p)
    \/ \E p \in Threads : SelectByMood(p)
    \/ \E p \in Threads : Insert(p)
    \/ \E p \in Threads : Count(p)
    \/ \E p \in Threads : Find(p)
    \/ \E p \in Threads : Delete(p)
    \/ \E p \in Threads : Respond(p)
    \/ \E p \in Threads : Finish(p)

Spec == Init /\ [][Next]_vars

SpecSeq == InitSeq /\ [][Next]_vars

SpecConc == InitConc /\ [][Next]_vars

NextQuery == \E p \in Threads : BuildQuery(p)

SpecQuery == InitQuery /\ [][NextQuery]_vars

-----------------------------------------------------------------------------
(* Properties *)

TokenCalls(r) == {i \in DOMAIN r.calls : r.calls[i].api = "token"}
CatalogCalls(r) == {i \in DOMAIN r.calls : r.calls[i].api # "token"}
SearchCalls(r) == {i \in DOMAIN r.calls : r.calls[i].api = "search"}

\* C1 (as claimed): when get_spotify_token returns, a call made before the
\* cached expiry has issued no token exchange and returns the cached token,
\* and a call made at or after the expiry has issued exactly one exchange.
C1_ExchangeOncePerMiss ==
    \A p \in Threads :
        req[p].pc = "guard" =>
            IF req[p].hit
            THEN /\ TokenCalls(req[p]) = {}
                 /\ req[p].token = spotify_token_cache.access_token
            ELSE Cardinality(TokenCalls(req[p])) = 1

\* the part of C1 the code does keep: a call before the expiry answers from
\* the cache without any exchange
C1_HitIsSilent ==
    \A p \in Threads :
        (req[p].pc = "guard" /\ req[p].hit) =>
            /\ TokenCalls(req[p]) = {}
            /\ req[p].token = spotify_token_cache.access_token

SeededRecords == Seed("u1", LIMIT, 0) \cup Seed("u2", LIMIT - 1, LIMIT)

\* C6: a request whose get_spotify_token returned no token ends with 500
\* and has issued no search call, no audio-features call and no history
\* write; no catalog call ever carries an empty credential.
C6_TokenFailureAborts ==
    \A p \in Threads :
        LET r == req[p] IN
        /\ \A i \in CatalogCalls(r) : r.calls[i].token # None
        /\ (r.route = "recommend" /\ r.token = None
                /\ r.pc \notin {"idle", "token", "exchange"}) =>
              /\ r.pc \in {"guard", "done"}
              /\ CatalogCalls(r) = {}
              /\ records_col = SeededRecords
              /\ r.pc = "done" => r.resp = Resp(500, "Token error")

C6_Witness ==
    \E p \in Threads :
        /\ req[p].pc = "done"
        /\ req[p].route = "recommend"
        /\ req[p].token = None
        /\ ~req[p].hit
        /\ req[p].resp.status = 500

IsEmptyAnswer(c) == c.api = "search" /\ c.result \in {"empty", "status"}

AllEmpty(r) == r.calls # <<>> /\ \A i \in DOMAIN r.calls : IsEmptyAnswer(r.calls[i])

\* C4: 404 "No tracks found" is answered only after a "Pop" search at
\* offset 0 was issued last and came back empty, every search before it
\* having come back empty too; and a request all of whose searches came back
\* empty ends with 404, not 500.
C4_PopBeforeNotFound ==
    \A p \in Threads :
        LET r == req[p] IN
        /\ r.resp.status = 404 =>
              /\ AllEmpty(r)
              /\ r.calls[Len(r.calls)].q = "Pop"
              /\ r.calls[Len(r.calls)].offset = 0
              /\ r.resp.error = "No tracks found"
        /\ (r.pc = "done" /\ AllEmpty(r)) => r.resp.status = 404
        /\ (r.pc \in {"found", "select"} /\ r.tracks = <<>>) =>
              (r.calls[Len(r.calls)].q = "Pop" /\ IsEmptyAnswer(r.calls[Len(r.calls)]))

\* genre "All", primary search past offset 0, retry, then "Pop": three
\* empty answers and 404
C4_Witness ==
    \E p \in Threads :
        /\ req[p].pc = "done"
        /\ req[p].resp.status = 404
        /\ req[p].genre_ui = "All"
        /\ Len(req[p].calls) = 3

Selected(r) == r.best_match # NoTrack

FeaturesAnswered(r) ==
    \E i \in DOMAIN r.calls :
        r.calls[i].api = "audio-features" /\ r.calls[i].result = "all"

HasFeatures(r) == \E i \in DOMAIN r.tracks : r.tracks[i].feat # <<>>

\* the candidates with features that lie strictly closer to the target than t
Closer(r, t) ==
    { i \in DOMAIN r.tracks :
        /\ r.tracks[i].feat # <<>>
        /\ Distance(r.tracks[i].feat, r.target_valence, r.target_energy)
             < Distance(t.feat, r.target_valence, r.target_energy) }

AmongClosest(r) ==
    /\ r.best_match.feat # <<>>
    /\ Cardinality(Closer(r, r.best_match)) < 5

Built(r) == r.pc = "search0"

\* the value a body field gives the handler: itself, or 0.5 when absent
Given(field) == IF field.kind = "absent" THEN 5 ELSE field.val

Keyword(v, a) ==
    CASE v < 4 /\ a < 4 -> "sad"
      [] v < 4 /\ a >= 4 -> "angry"
      [] v > 6 /\ a < 4 -> "chill"
      [] v > 6 /\ a >= 4 -> "party"
      [] OTHER -> "pop"

NoText(r) == r.data.text \in {<<>>, Blank}

GenreOf(r) == IF r.data.genre = "<absent>" THEN "All" ELSE r.data.genre

\* C7: with no free text and no known genre the built query is exactly the
\* mood keyword of the quadrant table ("pop" in the middle band, valence 0.4
\* and 0.6 included) and the initial offset is an integer in [0,50].
C7_QuadrantKeyword ==
    \A p \in Threads :
        LET r == req[p] IN
        (Built(r) /\ NoText(r) /\ GenreOf(r) \in {"All", "Rock"}) =>
            /\ r.q = Keyword(Given(r.data.valence), Given(r.data.arousal))
            /\ r.offset \in 0..50
            /\ r.random_offset = r.offset

\* valence exactly 0.6 with low arousal is still "pop", at the largest offset
C7_Witness ==
    \E p \in Threads :
        LET r == req[p] IN
        /\ Built(r) /\ NoText(r) /\ GenreOf(r) = "All"
        /\ r.data.valence = Num(6) /\ r.data.arousal = Num(3)
        /\ r.q = "pop" /\ r.offset = 50

Tag(g) == IF g = "Lofi" THEN "lo-fi" ELSE "k-pop"

C9_FreeTextQuery ==
    \A p \in Threads :
        LET r == req[p] IN
        (Built(r) /\ r.data.text = LofiBeats) =>
            /\ r.q = IF GenreOf(r) \in {"Lofi", "K-Pop"}
                     THEN "lofi beats genre:" \o Tag(GenreOf(r))
                     ELSE "lofi beats"
            /\ r.offset = 0
            /\ r.random_offset = 0

C9_Witness ==
    \E p \in Threads :
        LET r == req[p] IN
        /\ Built(r) /\ r.data.text = LofiBeats /\ r.data.genre = "Lofi"
        /\ r.data.valence = Num(9) /\ r.data.arousal = Num(1)
        /\ r.q = "lofi beats genre:lo-fi" /\ r.offset = 0

\* an insert-and-trim step has run to its end without a store failure
Completed(r) ==
    /\ r.data.user_id # "" /\ Selected(r)
    /\ r.pc \in {"respond", "done"} /\ ~r.db_error

In(docs, user) == {d \in docs : d.user_id = user}

\* C2: after a completed insert-and-trim step the request's user has at most
\* 40 records; if the user had exactly 40 before the insert, exactly 40
\* remain, the new record among them and every record deleted older than
\* every record kept; the records of other users are as they were.
C2_HistoryBound ==
    \A p \in Threads :
        LET r == req[p]
            u == r.data.user_id
            had == In(r.before, u)
            has == Of(u)
        IN  Completed(r) =>
              /\ Cardinality(has) <= 40
              /\ Cardinality(had) = 40 =>
                    /\ Cardinality(has) = 40
                    /\ Cardinality(has \ had) = 1
                    /\ \A new \in has \ had : new._id = next_id - 1
                    /\ Cardinality(had \ has) = 1
                    /\ \A gone \in had \ has :
                          \A kept \in has : gone.timestamp < kept.timestamp
              /\ \A d \in records_col \cup r.before :
                    d.user_id # u => (d \in records_col /\ d \in r.before)

\* u1 had 40 records, 40 remain, the oldest is gone and the new one is there
C2_Witness ==
    \E p \in Threads :
        LET r == req[p] IN
        /\ Completed(r) /\ r.pc = "done" /\ r.data.user_id = "u1"
        /\ Cardinality(In(r.before, "u1")) = 40
        /\ r.ids_to_delete = {1}
        /\ Cardinality(Of("u1")) = 40
        /\ \E d \in Of("u1") : d.timestamp >= Now0

Quiescent == \A p \in Threads : req[p].pc = "idle"

C10_BestEffortHistory ==
    \A p \in Threads :
        LET r == req[p] IN
        (Selected(r) /\ r.data.user_id # "" /\ r.pc = "done") =>
            /\ r.resp.status = 200
            /\ r.resp.name = r.best_match.id
            /\ r.resp.match_info = r.features

C10_Witness ==
    \E p \in Threads :
        LET r == req[p] IN
        /\ Selected(r) /\ r.pc = "done" /\ r.db_error
        /\ r.resp.status = 200 /\ r.resp.name = r.best_match.id
        /\ Cardinality(Of(r.data.user_id)) > 40

-----------------------------------------------------------------------------
(* Failures of outbound calls and of input parsing *)

LastCall(r) == r.calls[Len(r.calls)]

\* the request ended on a search call that failed
EndedOnFailedSearch(r) ==
    /\ r.pc = "done"
    /\ r.calls # <<>>
    /\ LastCall(r).api = "search"
    /\ LastCall(r).result \in {"status", "raise"}

C11_StatusFallsThrough ==
    \A p \in Threads :
        LET r == req[p] IN
        (EndedOnFailedSearch(r) /\ LastCall(r).result = "status") =>
            /\ LastCall(r).q = "Pop"
            /\ r.resp = Resp(404, "No tracks found")

\* C12 (as claimed): the check, the exchange and the write of
\* get_spotify_token are one atomic step: at most one worker is between the
\* expiry check and the end of the exchange, and every worker that comes out
\* of get_spotify_token holds the cached token.
C12_SingleRefresh ==
    /\ Cardinality({p \in Threads : req[p].pc = "exchange"}) <= 1
    /\ \A p \in Threads :
          req[p].pc = "guard" =>
              /\ req[p].token # None
              /\ req[p].token = spotify_token_cache.access_token

\* the atomicity alone
C12_OneWorkerRefreshing ==
    Cardinality({p \in Threads : req[p].pc = "exchange"}) <= 1

\* the value the claim gives a field: the number, or 0.5
Parsed(field) == IF field.kind = "num" THEN field.val ELSE Default

C13_AbsentDefaults ==
    \A p \in Threads :
        LET r == req[p] IN
        (r.pc = "search0") =>
            /\ r.data.valence = Absent => r.target_valence = Default
            /\ r.data.arousal = Absent => r.target_energy = Default
            /\ r.data.text \in {<<>>, Blank} =>
                  /\ r.custom_text = ""
                  /\ r.q = FinalQuery(get_query_from_metrics(r.target_valence,
                                                             r.target_energy),
                                      r.genre_ui)

-----------------------------------------------------------------------------
(* The order of the ladder *)

Searches(r) == SelectSeq(r.calls, LAMBDA c : c.api = "search")

Known(r) == r.genre_ui \in {"Lofi", "K-Pop"}

\* the built query: the text or the mood keyword, with the genre tag if known
Primary(r) ==
    (IF r.custom_text # "" THEN r.custom_text
     ELSE Keyword(r.target_valence, r.target_energy))
    \o (IF Known(r) THEN " genre:" \o Tag(r.genre_ui) ELSE "")

\* the step of the ladder a search call is, 4 if it is none of them
Rung(r, s, i) ==
    IF i = 1 THEN
        IF s[i].q = Primary(r) /\ s[i].offset = r.random_offset THEN 0 ELSE 4
    ELSE IF s[i].q = Primary(r) /\ s[i].offset = 0 THEN 1
    ELSE IF Known(r) /\ s[i].q = "genre:" \o Tag(r.genre_ui)
                     /\ s[i].offset \in 0..MaxOffset THEN 2
    ELSE IF s[i].q = "Pop" /\ s[i].offset = 0 THEN 3
    ELSE 4

\* C14: the searches of a request are steps of the ladder in its order
\* (built query at the chosen offset, same query at offset 0, "genre:<tag>"
\* alone only for a known genre, "Pop" at offset 0), every search but the
\* last came back empty, nothing is called between or before them and no
\* search follows a non-empty answer, and a selected track is one of the
\* candidates of the one non-empty answer.
C14_LadderOrder ==
    \A p \in Threads :
        LET r == req[p]
            s == Searches(r)
        IN  /\ \A i \in DOMAIN r.calls :
                  r.calls[i].api = "search" => i <= Len(s)
            /\ \A i \in DOMAIN s :
                  /\ Rung(r, s, i) < 4
                  /\ i > 1 => Rung(r, s, i - 1) < Rung(r, s, i)
                  /\ i < Len(s) => IsEmptyAnswer(s[i])
            /\ r.tracks # <<>> =>
                  /\ s # <<>>
                  /\ s[Len(s)].result = "items"
            /\ Selected(r) =>
                  /\ r.tracks # <<>>
                  /\ \E i \in DOMAIN r.tracks : r.tracks[i] = r.best_match

\* all four steps were needed: a known genre, an offset above 0, three empty
\* answers, and the track came from the "Pop" search
C14_Witness ==
    \E p \in Threads :
        LET r == req[p]
            s == Searches(r)
        IN  /\ Len(s) = 4
            /\ s[1].offset > 0 /\ s[2].offset = 0 /\ s[2].q = s[1].q
            /\ s[3].q = "genre:lo-fi" /\ s[4].q = "Pop"
            /\ s[4].result = "items"
            /\ Selected(r) /\ r.pc = "done" /\ r.resp.status = 200

-----------------------------------------------------------------------------
(* Selection without features *)

\* the feature call of the request gave no usable entry: it failed, or it
\* answered with no entry for any candidate
NoFeatures(r, kinds) ==
    /\ r.calls # <<>>
    /\ LastCall(r).api = "audio-features"
    /\ LastCall(r).result \in kinds

AmongFirstRaw(r) ==
    \E i \in DOMAIN r.tracks : i <= TopN /\ r.tracks[i] = r.best_match

C16_EmptyFeaturesFallback ==
    \A p \in Threads :
        LET r == req[p] IN
        /\ (NoFeatures(r, {"none"}) /\ r.pc = "done") =>
              (r.resp.status = 200 /\ AmongFirstRaw(r))
        /\ (NoFeatures(r, {"raise"}) /\ r.pc = "done" /\ r.custom_text # "") =>
              (r.resp.status = 200 /\ AmongFirstRaw(r))

-----------------------------------------------------------------------------
(* The token cache across calls *)

\* get_spotify_token of worker p returns in this step
Returns(p) == req[p].pc \in {"token", "exchange"} /\ req'[p].pc = "guard"

C17_CacheReadByExpiry ==
    [][\A p \in Threads :
          (req[p].pc = "token" /\ req'[p] # req[p]) =>
              (req'[p].pc = "guard" /\ req'[p].hit
                  /\ req'[p].token = spotify_token_cache.access_token)
              <=> (now < spotify_token_cache.expires_at)]_vars

\* C18: a call of get_spotify_token that returns no token has come out of
\* the exchange step (never out of the cache), after at most one exchange,
\* and has left the cached token and expiry as they were; a call answered
\* from the cache returns a token.
C18_FailureLeavesCache ==
    [][\A p \in Threads :
          Returns(p) =>
              /\ req'[p].token = None =>
                    /\ req[p].pc = "exchange"
                    /\ ~req'[p].hit
                    /\ Cardinality(TokenCalls(req'[p])) <= 1
                    /\ spotify_token_cache' = spotify_token_cache
              /\ req[p].pc = "token" =>
                    /\ req'[p].hit
                    /\ req'[p].token # None]_vars

\* the first call failed at the exchange and answered 500; the cache is as
\* it was and the next call is at the exchange again
C18_Witness ==
    \E p \in Threads :
        /\ served = 2
        /\ req[p].pc = "exchange"
        /\ spotify_token_cache = ColdCache

-----------------------------------------------------------------------------
(* POST /login *)

LoggedIn(r) == r.pc = "done" /\ r.route = "login" /\ r.resp.status = 200

\* C19 (as claimed): the users collection never holds two records of one
\* username, two logins with the same username are answered with the same
\* user_id, and no record is ever made for an empty username.
C19_OneRecordPerUsername ==
    /\ \A a, b \in users_col : a.username = b.username => a = b
    /\ \A p, q \in Threads :
          (LoggedIn(req[p]) /\ LoggedIn(req[q])
              /\ req[p].username = req[q].username) =>
                  req[p].resp.user_id = req[q].resp.user_id
    /\ \A u \in users_col : u.username # ""

\* the part of C19 the code keeps: a login without a username answers 400
\* and never touches the users collection
C19_NoUsernameNoRecord ==
    [][\A p \in Threads :
          (req'[p].pc = "done" /\ req[p].pc # "done"
              /\ req'[p].route = "login" /\ req'[p].username = "") =>
                  /\ req'[p].resp = Resp(400, "No username")
                  /\ req[p].pc = "idle"
                  /\ users_col' = users_col]_vars

-----------------------------------------------------------------------------
(* What may change the history *)

\* C15: a step adds at most one record, under a fresh id, for the user and
\* the track of a request that has selected a track and carries a user id;
\* a step of a request that has selected nothing or carries no user id
\* leaves the store as it is; no stored record changes; and a record goes
\* only in a step of a request of its user that selected a track and counted
\* more than 40 records, none of that user's records that stay being older.
C15_HistoryOnlyOnSuccess ==
    [][ /\ \A p \in Threads :
              (req'[p] # req[p]
                  /\ (~Selected(req'[p]) \/ req'[p].data.user_id = "")) =>
                      records_col' = records_col
        /\ records_col' # records_col =>
              /\ Cardinality(records_col' \ records_col) <= 1
              /\ \A d \in records_col' \ records_col :
                    /\ \A e \in records_col : e._id # d._id
                    /\ \E p \in Threads :
                          /\ req'[p] # req[p]
                          /\ Selected(req[p])
                          /\ req[p].data.user_id # ""
                          /\ d.user_id = req[p].data.user_id
                          /\ d.song_name = req[p].best_match.id
              /\ \A d \in records_col, e \in records_col' : d._id = e._id => d = e
              /\ \A d \in records_col \ records_col' :
                    /\ \A kept \in In(records_col', d.user_id) : Older(d, kept)
                    /\ \E p \in Threads :
                          /\ req'[p] # req[p]
                          /\ Selected(req[p])
                          /\ req[p].count > LIMIT
                          /\ req[p].data.user_id = d.user_id
      ]_vars

\* u1's request selected a track: its record is in the store under a new id,
\* u1's oldest record is gone, everything else is as it was
C15_Witness ==
    \E p \in Threads :
        LET r == req[p] IN
        /\ r.pc = "done" /\ r.resp.status = 200 /\ r.data.user_id = "u1"
        /\ \E d \in records_col :
              /\ d._id > 2 * LIMIT
              /\ d.user_id = "u1" /\ d.song_name = r.best_match.id
              /\ records_col \ {d} = {e \in SeededRecords : e._id # 1}

====
